---- MODULE Spec2Model ----
(***************************************************************************)
(* A model of the screenshot application's front end (src/src/App.tsx)    *)
(* and of its annotation editor (src/src/ImageEditor.tsx).                 *)
(*                                                                         *)
(* The component is a React function component.  Every handler runs with  *)
(* the values of the render in which it was created: a handler that        *)
(* suspends at an await keeps reading the state values (mode, autoSave,   *)
(* defaultPath, image, selected ids) of the render in which it was         *)
(* started, while its setState calls write the current state.  Pending    *)
(* asynchronous calls are therefore records that carry the values their   *)
(* continuation reads.  Refs (mediaRecorderRef, recordedChunksRef) are    *)
(* read at the time of use.                                               *)
(*                                                                         *)
(* Seven specifications share the variables:                              *)
(*   Spec         the capture / crop / export session, every user action  *)
(*   SpecCapture  the same session with the preferences as loaded and     *)
(*                export by auto-save only (small enough to explore with  *)
(*                larger bounds)                                          *)
(*   SpecRec      the recording session (start, stop, onstop, saveVideo)  *)
(*   SpecCrop     confirmCrop applied to a grid of rectangles and sizes   *)
(*   SpecEditor   the ImageEditor component: strokes, clear, the base     *)
(*                image its parent passes, getMergedImage                 *)
(*   SpecStrokes  the editor with one base image                          *)
(*   SpecEnum     the mode, the refresh buttons and the source selectors  *)
(***************************************************************************)
EXTENDS Integers, Sequences, FiniteSets, Bags, TLC

VARIABLES
    mode,               \* useState<Mode>                          App.tsx:30
    image,              \* useState<string | null>                 App.tsx:27
    originalImage,      \* useState<string | null>                 App.tsx:40
    completedCrop,      \* useState<PixelCrop>()                   App.tsx:38
    display,            \* rendered size of the crop <img>         App.tsx:438
    loading,            \* useState(false)                         App.tsx:28
    status,             \* useState("")                            App.tsx:29
    windows,            \* useState<WindowInfo[]>                  App.tsx:31
    monitors,           \* useState<MonitorInfo[]>                 App.tsx:32
    selectedWindowId,   \* useState<number | null>                 App.tsx:33
    selectedMonitorId,  \* useState<number | null>                 App.tsx:34
    autoSave,           \* useState(false) + localStorage          App.tsx:45
    defaultPath,        \* useState<string | null> + localStorage  App.tsx:44
    captures,           \* capture() calls suspended at their invoke
    nextCap,            \* number of capture calls issued so far
    timers,             \* setTimeout(() => saveImage(result), 100) not yet fired
    saves,              \* saveImage() calls suspended at save() or at invoke
    fetches,            \* fetchWindows()/fetchMonitors() calls suspended at invoke
    isRecording,        \* useState(false)                         App.tsx:48
    mediaRecorderRef,   \* useRef<MediaRecorder | null>            App.tsx:49
    recordedChunksRef,  \* useRef<Blob[]>                          App.tsx:50
    recorders,          \* the MediaRecorder objects created so far
    streams,            \* display streams whose tracks are live
    starts,             \* startRecording() calls suspended at getDisplayMedia
    nextRec,            \* number of startRecording calls issued so far
    videoSaves,         \* saveVideo() calls and how each ended
    imageData,          \* the imageData prop                 ImageEditor.tsx:12
    dimensions,         \* useState({ width: 0, height: 0 })  ImageEditor.tsx:22
    tool,               \* useState<"pen" | "eraser">         ImageEditor.tsx:16
    color,              \* useState("#ff0000")                ImageEditor.tsx:17
    opacity,            \* useState(1), in tenths             ImageEditor.tsx:18
    isDrawing,          \* useState(false)                    ImageEditor.tsx:15
    canvas,             \* the annotation <canvas>: size and pixels
    ctx,                \* its 2d context: compositing, style, current path
    loads,              \* images of the effect on [imageData] not yet loaded
    flattens,           \* getMergedImage() calls whose image has not loaded
    merged,             \* what the last getMergedImage promise resolved with
    edits               \* segments drawn, clears and base changes so far

appVars == <<mode, image, originalImage, completedCrop, display, loading, status,
             captures, nextCap, timers, saves>>
enumVars == <<windows, monitors, selectedWindowId, selectedMonitorId, fetches>>
prefVars == <<autoSave, defaultPath>>
recVars == <<isRecording, mediaRecorderRef, recordedChunksRef, recorders, streams,
             starts, nextRec, videoSaves>>
edVars == <<imageData, dimensions, tool, color, opacity, isDrawing, canvas, ctx,
            loads, flattens, merged, edits>>
vars == <<appVars, enumVars, prefVars, recVars, edVars>>

----------------------------------------------------------------------------
(* Bounds of the model *)

\* capture() calls issued in one behaviour
MaxCaptures == 2
\* saveImage() calls pending at once
MaxSaves == 2
\* fetchWindows()/fetchMonitors() calls pending at once
MaxFetch == 1
\* startRecording() calls issued in one behaviour
MaxStarts == 2
\* widths (native and displayed) and crop extents along x
MaxDim == 3
\* heights (native and displayed) and crop extents along y
MaxDimY == 2
\* stroke segments, Clear All clicks and base image changes in one behaviour
MaxEdits == 2
\* getMergedImage() calls pending at once
MaxFlattens == 1

----------------------------------------------------------------------------
(* Values *)

Modes == {"fullscreen", "window", "area", "record"}

\* JavaScript null for a numeric id; 0 is a number and is falsy as well
NullId == -1
TruthyId(id) == id # NullId /\ id # 0

\* string | null image data: null, the empty string, or PNG data
NullImage == [kind |-> "null"]
EmptyString == [kind |-> "empty"]
TruthyImage(img) == img.kind = "png"

\* a rational number num/den, den > 0
Rat(n, d) == <<n, d>>
RatEq(a, b) == a[1] * b[2] = b[1] * a[2]
\* conversion of a non-negative double to the unsigned long of canvas.width
ToUnsignedLong(r) == r[1] \div r[2]

\* the PNG a capture call returns: w x h native pixels, the whole capture
Png(cap, w, h) ==
    [kind |-> "png", cap |-> cap, w |-> w, h |-> h,
     sx |-> Rat(0, 1), sy |-> Rat(0, 1), sw |-> Rat(w, 1), sh |-> Rat(h, 1)]

NoCrop == [kind |-> "undefined"]
PixelCrop(x, y, w, h) == [kind |-> "px", x |-> x, y |-> y, width |-> w, height |-> h]

\* string | null defaultPath
NoPath == "null"
Dir == "dir"
TruthyPath(p) == p # NoPath

----------------------------------------------------------------------------
(* Preferences: the mount effect, toggleAutoSave, selectDefaultFolder *)

\* useEffect(..., []): localStorage "defaultPath" and "autoSave" as saved earlier
LoadPreferences ==
    /\ defaultPath \in {NoPath, Dir}
    /\ autoSave \in BOOLEAN

\* toggleAutoSave (the settings panel can be opened at any time)
ToggleAutoSave ==
    /\ autoSave' = ~autoSave
    /\ UNCHANGED <<edVars, defaultPath, appVars, enumVars, recVars>>

\* selectDefaultFolder: open() resolves with a directory (a cancelled or failed
\* dialog changes no state the model keeps)
SelectDefaultFolder ==
    /\ defaultPath' = Dir
    /\ UNCHANGED <<edVars, autoSave, appVars, enumVars, recVars>>

----------------------------------------------------------------------------
(* Enumeration: fetchWindows, fetchMonitors, the effect on mode *)

\* fetches, saves and videoSaves are bags: two calls suspended with the same
\* values are two calls
Pending(calls) == BagToSet(calls)
Add(calls, c) == calls (+) SetToBag({c})
Remove(calls, c) == calls (-) SetToBag({c})

CanFetch == BagCardinality(fetches) < MaxFetch

\* a fetch call suspended at its invoke; sel is the selected id of the render
\* that started it, which is what "!selectedWindowId" reads when it resumes
FetchCall(kind, sel) == [kind |-> kind, sel |-> sel]

\* the body of the effect on [mode], run for mode m
ModeEffect(m) ==
    IF m = "window" THEN FetchCall("windows", selectedWindowId)
                    ELSE FetchCall("monitors", selectedMonitorId)

\* the refresh button of the window selector
RefreshWindows ==
    /\ mode = "window"
    /\ CanFetch
    /\ fetches' = Add(fetches, FetchCall("windows", selectedWindowId))
    /\ UNCHANGED <<edVars, windows, monitors, selectedWindowId, selectedMonitorId,
                   appVars, prefVars, recVars>>

\* the refresh button of the monitor selector
RefreshMonitors ==
    /\ mode \in {"fullscreen", "area"}
    /\ Len(monitors) > 1
    /\ CanFetch
    /\ fetches' = Add(fetches, FetchCall("monitors", selectedMonitorId))
    /\ UNCHANGED <<edVars, windows, monitors, selectedWindowId, selectedMonitorId,
                   appVars, prefVars, recVars>>

\* get_windows resolves with wins
FetchWindowsOk(f, wins) ==
    /\ f \in Pending(fetches) /\ f.kind = "windows"
    /\ fetches' = Remove(fetches, f)
    /\ windows' = wins
    /\ selectedWindowId' =
         IF Len(wins) > 0 /\ ~TruthyId(f.sel) THEN wins[1].id ELSE selectedWindowId
    /\ UNCHANGED <<edVars, monitors, selectedMonitorId, appVars, prefVars, recVars>>

\* mons.find(m => m.is_primary)
FindPrimary(mons) ==
    LET ps == {i \in 1..Len(mons) : mons[i].is_primary}
    IN IF ps = {} THEN NullId
       ELSE mons[CHOOSE i \in ps : \A j \in ps : i <= j].id

\* get_monitors resolves with mons
FetchMonitorsOk(f, mons) ==
    /\ f \in Pending(fetches) /\ f.kind = "monitors"
    /\ fetches' = Remove(fetches, f)
    /\ monitors' = mons
    /\ selectedMonitorId' =
         IF Len(mons) > 0 /\ ~TruthyId(f.sel)
         THEN (IF FindPrimary(mons) # NullId THEN FindPrimary(mons) ELSE mons[1].id)
         ELSE selectedMonitorId
    /\ UNCHANGED <<edVars, windows, selectedWindowId, appVars, prefVars, recVars>>

\* get_windows / get_monitors rejects
FetchFails(f) ==
    /\ f \in Pending(fetches)
    /\ fetches' = Remove(fetches, f)
    /\ status' = "Fetch Error"
    /\ UNCHANGED <<edVars, windows, monitors, selectedWindowId, selectedMonitorId,
                   mode, image, originalImage, completedCrop, display, loading,
                   captures, nextCap, timers, saves, prefVars, recVars>>

\* onChange of the window <select>: one of the listed windows
SelectWindow(id) ==
    /\ mode = "window"
    /\ \E i \in 1..Len(windows) : windows[i].id = id
    /\ selectedWindowId' = id
    /\ UNCHANGED <<edVars, windows, monitors, selectedMonitorId, fetches,
                   appVars, prefVars, recVars>>

\* onChange of the monitor <select>, shown for more than one monitor
SelectMonitor(id) ==
    /\ mode \in {"fullscreen", "area"}
    /\ Len(monitors) > 1
    /\ \E i \in 1..Len(monitors) : monitors[i].id = id
    /\ selectedMonitorId' = id
    /\ UNCHANGED <<edVars, windows, monitors, selectedWindowId, fetches,
                   appVars, prefVars, recVars>>

\* onChange of a mode radio button: setMode(m), then the effect on [mode]
SetMode(m) ==
    /\ m \in Modes /\ m # mode
    /\ CanFetch
    /\ mode' = m
    /\ fetches' = Add(fetches, ModeEffect(m))
    /\ UNCHANGED <<edVars, image, originalImage, completedCrop, display, loading, status,
                   captures, nextCap, timers, saves,
                   windows, monitors, selectedWindowId, selectedMonitorId,
                   prefVars, recVars>>

----------------------------------------------------------------------------
(* Export of an image: saveImage *)

CanSave == BagCardinality(saves) < MaxSaves

\* "if (autoSave && defaultPath)" of saveImage and of saveVideo
SkipsDialog(as, dp) == as /\ TruthyPath(dp)

\* saveImage(imgData) called in a render whose state is (img, as, dp), up to its
\* first await: the set of suspended saveImage calls after it.  With the dialog
\* skipped it is suspended at invoke("save_image"), otherwise at save().
SaveImageCall(imgData, img, as, dp) ==
    LET dataToSave == IF TruthyImage(imgData) THEN imgData ELSE img
    IN IF ~TruthyImage(dataToSave) THEN saves
       ELSE Add(saves,
                [data |-> dataToSave,
                 stage |-> IF SkipsDialog(as, dp) THEN "invoke" ELSE "dialog",
                 path |-> IF SkipsDialog(as, dp) THEN "default" ELSE "none"])

\* the Save Image button: saveImage()
SaveImageEnabled == mode # "record" /\ TruthyImage(image) /\ ~loading

SaveImageClick ==
    /\ SaveImageEnabled
    /\ CanSave
    /\ saves' = SaveImageCall(NullImage, image, autoSave, defaultPath)
    /\ UNCHANGED <<edVars, mode, image, originalImage, completedCrop, display, loading,
                   status, captures, nextCap, timers, enumVars, prefVars, recVars>>

\* save() resolves with a path
SaveDialogChosen(s) ==
    /\ s \in Pending(saves) /\ s.stage = "dialog"
    /\ saves' = Add(Remove(saves, s), [s EXCEPT !.stage = "invoke", !.path = "chosen"])
    /\ UNCHANGED <<edVars, mode, image, originalImage, completedCrop, display, loading,
                   status, captures, nextCap, timers, enumVars, prefVars, recVars>>

\* save() resolves with null: "if (path)" skips the invoke
SaveDialogCancelled(s) ==
    /\ s \in Pending(saves) /\ s.stage = "dialog"
    /\ saves' = Remove(saves, s)
    /\ UNCHANGED <<edVars, mode, image, originalImage, completedCrop, display, loading,
                   status, captures, nextCap, timers, enumVars, prefVars, recVars>>

\* invoke("save_image") resolves
SaveInvokeOk(s) ==
    /\ s \in Pending(saves) /\ s.stage = "invoke"
    /\ saves' = Remove(saves, s)
    /\ status' = "Saved"
    /\ UNCHANGED <<edVars, mode, image, originalImage, completedCrop, display, loading,
                   captures, nextCap, timers, enumVars, prefVars, recVars>>

\* save() or invoke("save_image") rejects: the catch block
SaveFails(s) ==
    /\ s \in Pending(saves)
    /\ saves' = Remove(saves, s)
    /\ status' = "Save Error"
    /\ UNCHANGED <<edVars, mode, image, originalImage, completedCrop, display, loading,
                   captures, nextCap, timers, enumVars, prefVars, recVars>>

----------------------------------------------------------------------------
(* Capture: capture() *)

\* (the Capture button without disabled={loading})
CaptureEnabledWhileLoading == mode # "record"
\* the Capture button is rendered outside record mode, disabled={loading}
CaptureEnabled == mode # "record" /\ ~loading

\* the command capture() invokes in a render with mode m and selected window win
CaptureCommand(m, win) ==
    IF m = "window" /\ TruthyId(win) THEN "capture_window" ELSE "capture_screen"

\* the Capture button: capture() up to its await
Capture ==
    /\ CaptureEnabled
    /\ nextCap < MaxCaptures
    /\ nextCap' = nextCap + 1
    /\ loading' = TRUE
    /\ status' = "Capturing..."
    /\ captures' = captures \cup
         {[id |-> nextCap + 1,
           cmd |-> CaptureCommand(mode, selectedWindowId),
           arg |-> IF CaptureCommand(mode, selectedWindowId) = "capture_window"
                   THEN selectedWindowId ELSE selectedMonitorId,
           mode |-> mode, win |-> selectedWindowId,
           autoSave |-> autoSave, defaultPath |-> defaultPath]}
    /\ UNCHANGED <<edVars, mode, image, originalImage, completedCrop, display,
                   timers, saves, enumVars, prefVars, recVars>>

\* the invoke of capture call c resolves with a w x h PNG; in area mode the crop
\* <img> is then rendered d.width x d.height
CaptureOk(c, w, h, d) ==
    /\ c \in captures
    /\ captures' = captures \ {c}
    /\ LET result == Png(c.id, w, h)
       IN /\ IF c.cmd = "capture_screen" /\ c.mode = "area"
             THEN /\ originalImage' = result
                  /\ image' = NullImage
                  /\ display' = d
             ELSE /\ image' = result
                  /\ originalImage' = NullImage
                  /\ UNCHANGED display
          /\ status' = IF c.mode = "area" THEN "Select area to crop" ELSE "Captured!"
          /\ timers' = IF c.mode # "area" /\ c.autoSave
                       THEN timers \cup {[data |-> result, autoSave |-> c.autoSave,
                                          defaultPath |-> c.defaultPath]}
                       ELSE timers
    /\ loading' = FALSE
    /\ UNCHANGED <<edVars, mode, completedCrop, nextCap, saves, enumVars, prefVars, recVars>>

\* (a rejection handled without the finally block: loading stays set)
CaptureFailsNoFinally(c) ==
    /\ c \in captures
    /\ captures' = captures \ {c}
    /\ status' = "Error"
    /\ UNCHANGED <<edVars, mode, image, originalImage, completedCrop, display,
                   loading, nextCap, timers, saves, enumVars, prefVars, recVars>>

\* the invoke of capture call c rejects: catch, finally
CaptureFails(c) ==
    /\ c \in captures
    /\ captures' = captures \ {c}
    /\ status' = "Error"
    /\ loading' = FALSE
    /\ UNCHANGED <<edVars, mode, image, originalImage, completedCrop, display, nextCap,
                   timers, saves, enumVars, prefVars, recVars>>

\* the timer of an auto-save fires: saveImage(result) of the capture's render
AutoSaveTimer(t) ==
    /\ t \in timers
    /\ CanSave
    /\ timers' = timers \ {t}
    /\ saves' = SaveImageCall(t.data, NullImage, t.autoSave, t.defaultPath)
    /\ UNCHANGED <<edVars, mode, image, originalImage, completedCrop, display, loading,
                   status, captures, nextCap, enumVars, prefVars, recVars>>

----------------------------------------------------------------------------
(* Area selection: ReactCrop onComplete, confirmCrop *)

\* the crop container is rendered
CropShown == TruthyImage(originalImage) /\ mode = "area"

\* onComplete={(c) => setCompletedCrop(c)}
SetCompletedCrop(c) ==
    /\ CropShown
    /\ completedCrop' = c
    /\ UNCHANGED <<edVars, mode, image, originalImage, display, loading, status, captures,
                   nextCap, timers, saves, enumVars, prefVars, recVars>>

\* scaleX = naturalWidth / width, scaleY = naturalHeight / height
ScaleX(img, d) == Rat(img.w, d.width)
\* (a vertical factor taken from the widths: one factor for both axes)
ScaleYFromWidth(img, d) == Rat(img.w, d.width)
ScaleY(img, d) == Rat(img.h, d.height)
\* a display-space length times a scale factor
Scaled(v, scale) == Rat(v * scale[1], scale[2])

\* canvas.width = completedCrop.width * scaleX (an unsigned long)
CanvasWidth(c, img, d) == ToUnsignedLong(Scaled(c.width, ScaleX(img, d)))
CanvasHeight(c, img, d) == ToUnsignedLong(Scaled(c.height, ScaleY(img, d)))

\* canvas.toDataURL("image/png").split(",")[1] after the drawImage: a canvas
\* without pixels serialises to "data:," whose second part is the empty string
CroppedData(c, img, d) ==
    IF CanvasWidth(c, img, d) = 0 \/ CanvasHeight(c, img, d) = 0
    THEN EmptyString
    ELSE [kind |-> "png", cap |-> img.cap,
          w |-> CanvasWidth(c, img, d), h |-> CanvasHeight(c, img, d),
          sx |-> Scaled(c.x, ScaleX(img, d)), sy |-> Scaled(c.y, ScaleY(img, d)),
          sw |-> Scaled(c.width, ScaleX(img, d)),
          sh |-> Scaled(c.height, ScaleY(img, d))]

\* the Confirm Crop button: confirmCrop()
ConfirmCrop ==
    /\ CropShown
    /\ completedCrop # NoCrop
    /\ autoSave => CanSave
    /\ LET base64 == CroppedData(completedCrop, originalImage, display)
       IN /\ image' = base64
          /\ originalImage' = NullImage
          /\ status' = "Cropped!"
          /\ saves' = IF autoSave
                      THEN SaveImageCall(base64, image, autoSave, defaultPath)
                      ELSE saves
    /\ UNCHANGED <<edVars, mode, completedCrop, display, loading, captures, nextCap,
                   timers, enumVars, prefVars, recVars>>

----------------------------------------------------------------------------
(* Recording: startRecording, stopRecording, mediaRecorder.onstop, saveVideo *)

Recorder(id) == CHOOSE r \in recorders : r.id = id
SetRecorder(r) == {x \in recorders : x.id # r.id} \cup {r}

\* the Start Recording button: startRecording() up to getDisplayMedia; the
\* call keeps the autoSave and defaultPath of its render for its saveVideo
StartEnabled == mode = "record" /\ ~isRecording

StartRecording ==
    /\ StartEnabled
    /\ nextRec < MaxStarts
    /\ nextRec' = nextRec + 1
    /\ starts' = starts \cup
         {[id |-> nextRec + 1, autoSave |-> autoSave, defaultPath |-> defaultPath]}
    /\ UNCHANGED <<edVars, isRecording, mediaRecorderRef, recordedChunksRef, recorders,
                   streams, videoSaves, appVars, enumVars, prefVars>>

\* getDisplayMedia resolves with a stream, the recorder is created and started
StartGranted(p) ==
    /\ p \in starts
    /\ starts' = starts \ {p}
    /\ streams' = streams \cup {p.id}
    /\ recorders' = recorders \cup
         {[id |-> p.id, stream |-> p.id, state |-> "recording", onstop |-> "none",
           blob |-> <<>>, autoSave |-> p.autoSave, defaultPath |-> p.defaultPath]}
    /\ mediaRecorderRef' = p.id
    /\ recordedChunksRef' = <<>>
    /\ isRecording' = TRUE
    /\ status' = "Recording..."
    /\ UNCHANGED <<edVars, nextRec, videoSaves, mode, image, originalImage, completedCrop,
                   display, loading, captures, nextCap, timers, saves,
                   enumVars, prefVars>>

\* getDisplayMedia resolves with a stream and new MediaRecorder(...) throws
\* (the mimeType is not supported): the catch block
StartGrantedRecorderFails(p) ==
    /\ p \in starts
    /\ starts' = starts \ {p}
    /\ streams' = streams \cup {p.id}
    /\ status' = "Recording Error"
    /\ UNCHANGED <<edVars, isRecording, mediaRecorderRef, recordedChunksRef, recorders,
                   nextRec, videoSaves, mode, image, originalImage, completedCrop,
                   display, loading, captures, nextCap, timers, saves,
                   enumVars, prefVars>>

\* getDisplayMedia rejects (permission denied, nothing to capture)
StartDenied(p) ==
    /\ p \in starts
    /\ starts' = starts \ {p}
    /\ status' = "Recording Error"
    /\ UNCHANGED <<edVars, isRecording, mediaRecorderRef, recordedChunksRef, recorders,
                   streams, nextRec, videoSaves, mode, image, originalImage,
                   completedCrop, display, loading, captures, nextCap, timers,
                   saves, enumVars, prefVars>>

\* the Stop Recording button: stopRecording(); stop() on a recorder that is
\* already inactive changes nothing
StopEnabled == mode = "record" /\ isRecording

StopRecording ==
    /\ StopEnabled
    /\ mediaRecorderRef # NullId /\ isRecording
    /\ Recorder(mediaRecorderRef).state = "recording"
    /\ recorders' = SetRecorder([Recorder(mediaRecorderRef) EXCEPT !.state = "inactive"])
    /\ UNCHANGED <<edVars, isRecording, mediaRecorderRef, recordedChunksRef, streams,
                   starts, nextRec, videoSaves, appVars, enumVars, prefVars>>

\* the task stop() queued: dataavailable with the recorded data (size bytes),
\* then the stop event: onstop up to its await of blob.arrayBuffer()
RecorderStopped(r, size) ==
    /\ r \in recorders /\ r.state = "inactive" /\ r.onstop = "none"
    /\ LET chunks == IF size > 0 THEN Append(recordedChunksRef, r.id)
                                 ELSE recordedChunksRef
       IN /\ recordedChunksRef' = chunks
          /\ recorders' = SetRecorder([r EXCEPT !.onstop = "assembling",
                                                !.blob = chunks])
    /\ UNCHANGED <<edVars, isRecording, mediaRecorderRef, streams, starts, nextRec,
                   videoSaves, appVars, enumVars, prefVars>>

\* saveVideo(bytes) called from the onstop of recorder r, up to its first await
SaveVideoCall(r, bytes) ==
    [rec |-> r.id, bytes |-> bytes,
     stage |-> IF SkipsDialog(r.autoSave, r.defaultPath) THEN "invoke" ELSE "dialog",
     path |-> IF SkipsDialog(r.autoSave, r.defaultPath) THEN "default" ELSE "none"]

\* blob.arrayBuffer() resolves: the rest of onstop
OnStopAssembled(r) ==
    /\ r \in recorders /\ r.onstop = "assembling"
    /\ recorders' = SetRecorder([r EXCEPT !.onstop = "done"])
    /\ videoSaves' = Add(videoSaves, SaveVideoCall(r, r.blob))
    /\ streams' = streams \ {r.stream}
    /\ isRecording' = FALSE
    /\ status' = "Recording finished and saved."
    /\ UNCHANGED <<edVars, mediaRecorderRef, recordedChunksRef, starts, nextRec,
                   mode, image, originalImage, completedCrop, display, loading,
                   captures, nextCap, timers, saves, enumVars, prefVars>>

\* blob.arrayBuffer() rejects, or Array.from(bytes) throws: onstop ends there
OnStopAssemblyFails(r) ==
    /\ r \in recorders /\ r.onstop = "assembling"
    /\ recorders' = SetRecorder([r EXCEPT !.onstop = "failed"])
    /\ UNCHANGED <<edVars, isRecording, mediaRecorderRef, recordedChunksRef, streams,
                   starts, nextRec, videoSaves, appVars, enumVars, prefVars>>

\* save() of saveVideo resolves with a path
VideoDialogChosen(s) ==
    /\ s \in Pending(videoSaves) /\ s.stage = "dialog"
    /\ videoSaves' = Add(Remove(videoSaves, s),
                          [s EXCEPT !.stage = "invoke", !.path = "chosen"])
    /\ UNCHANGED <<edVars, isRecording, mediaRecorderRef, recordedChunksRef, recorders,
                   streams, starts, nextRec, appVars, enumVars, prefVars>>

\* save() of saveVideo resolves with null: "if (path)" skips the invoke
VideoDialogCancelled(s) ==
    /\ s \in Pending(videoSaves) /\ s.stage = "dialog"
    /\ videoSaves' = Remove(videoSaves, s)
    /\ UNCHANGED <<edVars, isRecording, mediaRecorderRef, recordedChunksRef, recorders,
                   streams, starts, nextRec, appVars, enumVars, prefVars>>

\* invoke("save_video") resolves
VideoInvokeOk(s) ==
    /\ s \in Pending(videoSaves) /\ s.stage = "invoke"
    /\ videoSaves' = Remove(videoSaves, s)
    /\ status' = "Video saved"
    /\ UNCHANGED <<edVars, isRecording, mediaRecorderRef, recordedChunksRef, recorders,
                   streams, starts, nextRec, mode, image, originalImage,
                   completedCrop, display, loading, captures, nextCap, timers,
                   saves, enumVars, prefVars>>

\* save() or invoke("save_video") rejects: the catch block
VideoSaveFails(s) ==
    /\ s \in Pending(videoSaves)
    /\ videoSaves' = Remove(videoSaves, s)
    /\ status' = "Save Video Error"
    /\ UNCHANGED <<edVars, isRecording, mediaRecorderRef, recordedChunksRef, recorders,
                   streams, starts, nextRec, mode, image, originalImage,
                   completedCrop, display, loading, captures, nextCap, timers,
                   saves, enumVars, prefVars>>

----------------------------------------------------------------------------
(* The annotation editor: ImageEditor.tsx *)

\* The model keeps one row of pixels of every bitmap.  A pointer position is
\* the cell getCoordinates maps it to; a stroked path paints the cells its
\* segments pass through (two positions in one cell are a segment within that
\* cell), and what lineWidth and lineCap add around them is left out.

\* the images the parent passes as imageData: two of one size and a narrower one
BaseImages ==
    {[id |-> 1, w |-> 2, h |-> 1], [id |-> 2, w |-> 2, h |-> 1],
     [id |-> 3, w |-> 1, h |-> 1]}

\* <input type="color"> values and the opacity slider, in tenths
Colors == {"#ff0000", "#0000ff"}
Opacities == {5, 10}
Opaque == 10

\* strokeStyle of a 2d context in its default state, and "rgba(0,0,0,1)"
Black == [color |-> "#000000", opacity |-> Opaque]

\* the cells of a bitmap of the given size
CellsOf(w, h) == IF h = 0 THEN {} ELSE 1..w
Cells(cv) == CellsOf(cv.width, cv.height)

\* a canvas whose width or height attribute has just been set: transparent
BlankCanvas(w, h) == [width |-> w, height |-> h, px |-> [c \in CellsOf(w, h) |-> <<>>]]
LayerEmpty(cv) == \A c \in Cells(cv) : cv.px[c] = <<>>

\* the 2d context after the canvas was created or resized: default state
DefaultCtx == [op |-> "source-over", style |-> Black, path |-> <<>>]

\* the tool buttons, the colour input and the opacity slider (shown for the pen)
SetTool(t) ==
    /\ t # tool
    /\ tool' = t
    /\ UNCHANGED <<imageData, dimensions, color, opacity, isDrawing, canvas, ctx,
                   loads, flattens, merged, edits,
                   appVars, enumVars, prefVars, recVars>>

SetColor(c) ==
    /\ tool = "pen" /\ c # color
    /\ color' = c
    /\ UNCHANGED <<imageData, dimensions, tool, opacity, isDrawing, canvas, ctx,
                   loads, flattens, merged, edits,
                   appVars, enumVars, prefVars, recVars>>

SetOpacity(o) ==
    /\ tool = "pen" /\ o # opacity
    /\ opacity' = o
    /\ UNCHANGED <<imageData, dimensions, tool, color, isDrawing, canvas, ctx,
                   loads, flattens, merged, edits,
                   appVars, enumVars, prefVars, recVars>>

\* getCoordinates: the cell under the pointer; on a canvas without pixels the
\* scale factors are 0 and every position maps to 0
PointerCells(cv) == IF Cells(cv) = {} THEN {0} ELSE Cells(cv)

\* startDrawing: globalCompositeOperation and strokeStyle for the tool
CompositeOperation(t) == IF t = "eraser" THEN "destination-out" ELSE "source-over"
\* (an eraser style that takes the opacity of the slider)
StrokeStyleWithOpacity(t, col, op) ==
    IF t = "eraser" THEN [color |-> "#000000", opacity |-> op]
                    ELSE [color |-> col, opacity |-> op]
StrokeStyle(t, col, op) == IF t = "eraser" THEN Black ELSE [color |-> col, opacity |-> op]

\* onMouseDown / onTouchStart
StartDrawing(x) ==
    /\ x \in PointerCells(canvas)
    /\ isDrawing' = TRUE
    /\ ctx' = [op |-> CompositeOperation(tool),
               style |-> StrokeStyle(tool, color, opacity),
               path |-> <<x>>]
    /\ UNCHANGED <<imageData, dimensions, tool, color, opacity, canvas,
                   loads, flattens, merged, edits,
                   appVars, enumVars, prefVars, recVars>>

\* the path passes through cell c
Covers(path, c) ==
    \E i \in 1..(Len(path) - 1) :
        \/ path[i] <= c /\ c <= path[i + 1]
        \/ path[i + 1] <= c /\ c <= path[i]

\* one cell after a paint is composited on it: destination-out with an opaque
\* style leaves it transparent and with a translucent style fades what is
\* there; source-over with an opaque style leaves the paint alone and with a
\* translucent style blends it over what is there.  b is the base image shown
\* when the paint is applied.
Composite(pixel, cx, b) ==
    LET paint == [color |-> cx.style.color, opacity |-> cx.style.opacity, base |-> b]
    IN IF cx.op = "destination-out"
       THEN (IF cx.style.opacity = Opaque THEN <<>> ELSE pixel)
       ELSE IF cx.style.opacity = Opaque THEN <<paint>>
       ELSE Append(pixel, paint)

\* ctx.stroke(): the whole current path is stroked
Stroke(cv, cx, b) ==
    [cv EXCEPT !.px = [c \in Cells(cv) |->
        IF Covers(cx.path, c) THEN Composite(cv.px[c], cx, b) ELSE cv.px[c]]]

\* onMouseMove / onTouchMove: lineTo, stroke
Draw(x) ==
    /\ isDrawing
    /\ edits < MaxEdits
    /\ x \in PointerCells(canvas)
    /\ ctx' = [ctx EXCEPT !.path = Append(ctx.path, x)]
    /\ canvas' = Stroke(canvas, ctx', imageData.id)
    /\ edits' = edits + 1
    /\ UNCHANGED <<imageData, dimensions, tool, color, opacity, isDrawing,
                   loads, flattens, merged,
                   appVars, enumVars, prefVars, recVars>>

\* onMouseUp / onMouseLeave / onTouchEnd; closePath paints nothing and the next
\* startDrawing begins a new path
StopDrawing ==
    /\ isDrawing
    /\ isDrawing' = FALSE
    /\ UNCHANGED <<imageData, dimensions, tool, color, opacity, canvas, ctx,
                   loads, flattens, merged, edits,
                   appVars, enumVars, prefVars, recVars>>

\* (a clear of the left half of the canvas)
ClearedHalf(cv) ==
    [cv EXCEPT !.px = [c \in Cells(cv) |-> IF 2 * c <= cv.width THEN <<>> ELSE cv.px[c]]]
\* ctx.clearRect(0, 0, canvas.width, canvas.height)
Cleared(cv) == BlankCanvas(cv.width, cv.height)

\* the Clear All button: clearCanvas
ClearCanvas ==
    /\ edits < MaxEdits
    /\ canvas' = Cleared(canvas)
    /\ edits' = edits + 1
    /\ UNCHANGED <<imageData, dimensions, tool, color, opacity, isDrawing, ctx,
                   loads, flattens, merged,
                   appVars, enumVars, prefVars, recVars>>

\* the parent renders the editor with another image: the effect on [imageData]
\* starts loading it
SetImageData(b) ==
    /\ edits < MaxEdits
    /\ b \in BaseImages /\ b # imageData
    /\ imageData' = b
    /\ loads' = loads \cup {b}
    /\ edits' = edits + 1
    /\ UNCHANGED <<dimensions, tool, color, opacity, isDrawing, canvas, ctx,
                   flattens, merged,
                   appVars, enumVars, prefVars, recVars>>

\* img.onload of the effect: setDimensions, and the render that follows sets
\* the width and height attributes of the canvas that changed; setting either
\* resets the bitmap and the context
DimensionsLoaded(b) ==
    /\ b \in loads
    /\ loads' = loads \ {b}
    /\ dimensions' = [width |-> b.w, height |-> b.h]
    /\ IF dimensions'.width # canvas.width \/ dimensions'.height # canvas.height
       THEN /\ canvas' = BlankCanvas(dimensions'.width, dimensions'.height)
            /\ ctx' = DefaultCtx
       ELSE UNCHANGED <<canvas, ctx>>
    /\ UNCHANGED <<imageData, tool, color, opacity, isDrawing,
                   flattens, merged, edits,
                   appVars, enumVars, prefVars, recVars>>

\* the parent calls ref.current.getMergedImage(): the call keeps the imageData
\* and dimensions of the last render.  The fields layer and edits record the
\* annotation layer and the number of edits at the call; the code keeps neither.
GetMergedImage ==
    /\ Cardinality(flattens) < MaxFlattens
    /\ flattens' = flattens \cup
         {[imageData |-> imageData, dimensions |-> dimensions,
           layer |-> canvas.px, edits |-> edits]}
    /\ UNCHANGED <<imageData, dimensions, tool, color, opacity, isDrawing, canvas,
                   ctx, loads, merged, edits,
                   appVars, enumVars, prefVars, recVars>>

\* exportCanvas of size d after drawImage(img, 0, 0) and drawImage(canvas, 0, 0),
\* then toDataURL("image/png").split(",")[1]; an export canvas without pixels
\* serialises to "data:,"
Flattened(b, d, cv) ==
    IF d.width = 0 \/ d.height = 0 THEN EmptyString
    ELSE [kind |-> "png", base |-> b.id, w |-> d.width, h |-> d.height,
          px |-> [c \in CellsOf(d.width, d.height) |->
                    [base |-> IF c <= b.w THEN b.id ELSE 0,
                     paint |-> IF c \in Cells(cv) THEN cv.px[c] ELSE <<>>]]]

\* drawImage(canvasRef.current, 0, 0) of a canvas of width or height 0 throws
\* InvalidStateError
CanvasUsable(cv) == cv.width # 0 /\ cv.height # 0

\* no getMergedImage promise has resolved yet
NoResult == [kind |-> "none"]

\* img.onload of getMergedImage call f: the promise resolves with the export;
\* the field edits records the number of edits at the call
MergedLoaded(f) ==
    /\ f \in flattens
    /\ CanvasUsable(canvas)
    /\ flattens' = flattens \ {f}
    /\ merged' = [kind |-> "result", edits |-> f.edits,
                  data |-> Flattened(f.imageData, f.dimensions, canvas)]
    /\ UNCHANGED <<imageData, dimensions, tool, color, opacity, isDrawing, canvas,
                   ctx, loads, edits,
                   appVars, enumVars, prefVars, recVars>>

\* img.onload of getMergedImage call f throws: the promise never settles
MergedLoadThrows(f) ==
    /\ f \in flattens
    /\ ~CanvasUsable(canvas)
    /\ flattens' = flattens \ {f}
    /\ UNCHANGED <<imageData, dimensions, tool, color, opacity, isDrawing, canvas,
                   ctx, loads, merged, edits,
                   appVars, enumVars, prefVars, recVars>>

\* the editor after its first render with base image b and the effects of it
EditorMounted(b) ==
    /\ imageData = b
    /\ dimensions = [width |-> 0, height |-> 0]
    /\ tool = "pen"
    /\ color = "#ff0000"
    /\ opacity = Opaque
    /\ isDrawing = FALSE
    /\ canvas = BlankCanvas(0, 0)
    /\ ctx = DefaultCtx
    /\ loads = {b}
    /\ flattens = {}
    /\ merged = NoResult
    /\ edits = 0

\* App renders no ImageEditor: the editor's variables keep these values
EditorNotRendered ==
    /\ imageData = NullImage
    /\ dimensions = [width |-> 0, height |-> 0]
    /\ tool = "pen"
    /\ color = "#ff0000"
    /\ opacity = Opaque
    /\ isDrawing = FALSE
    /\ canvas = BlankCanvas(0, 0)
    /\ ctx = DefaultCtx
    /\ loads = {}
    /\ flattens = {}
    /\ merged = NoResult
    /\ edits = 0

----------------------------------------------------------------------------
(* The specifications *)

\* what the enumeration and the capture collaborators answer
WindowIds == {1, 2}
WindowLists == {<<[id |-> 1], [id |-> 2]>>}
MonitorLists == {<<[id |-> 1, is_primary |-> TRUE]>>}
Displays == {[width |-> MaxDim, height |-> MaxDimY]}
Crops == {PixelCrop(0, 0, 0, 0), PixelCrop(0, 0, 1, 1)}

\* the state after the first render and its effects: the preferences are
\* loaded and the effect on [mode] has called fetchMonitors
InitSession ==
    /\ mode = "fullscreen"
    /\ image = NullImage
    /\ originalImage = NullImage
    /\ completedCrop = NoCrop
    /\ display = [width |-> MaxDim, height |-> MaxDimY]
    /\ loading = FALSE
    /\ status = ""
    /\ captures = {}
    /\ nextCap = 0
    /\ timers = {}
    /\ saves = EmptyBag

InitRecording ==
    /\ isRecording = FALSE
    /\ mediaRecorderRef = NullId
    /\ recordedChunksRef = <<>>
    /\ recorders = {}
    /\ streams = {}
    /\ starts = {}
    /\ nextRec = 0
    /\ videoSaves = EmptyBag

Init ==
    /\ InitSession
    /\ InitRecording
    /\ EditorNotRendered
    /\ LoadPreferences
    /\ windows = <<>>
    /\ monitors = <<>>
    /\ selectedWindowId = NullId
    /\ selectedMonitorId = NullId
    /\ fetches = SetToBag({FetchCall("monitors", NullId)})

Enumeration ==
    \/ \E f \in Pending(fetches), wins \in WindowLists : FetchWindowsOk(f, wins)
    \/ \E f \in Pending(fetches), mons \in MonitorLists : FetchMonitorsOk(f, mons)
    \/ \E f \in Pending(fetches) : FetchFails(f)

Next ==
    \/ \E m \in Modes : SetMode(m)
    \/ Enumeration
    \/ RefreshWindows
    \/ \E w \in WindowIds : SelectWindow(w)
    \/ ToggleAutoSave
    \/ SelectDefaultFolder
    \/ Capture
    \/ \E c \in captures, d \in Displays : CaptureOk(c, MaxDim, MaxDimY, d)
    \/ \E c \in captures : CaptureFails(c)
    \/ \E t \in timers : AutoSaveTimer(t)
    \/ \E c \in Crops : SetCompletedCrop(c)
    \/ ConfirmCrop
    \/ SaveImageClick
    \/ \E s \in Pending(saves) : SaveDialogChosen(s)
    \/ \E s \in Pending(saves) : SaveDialogCancelled(s)
    \/ \E s \in Pending(saves) : SaveInvokeOk(s)
    \/ \E s \in Pending(saves) : SaveFails(s)

Spec == Init /\ [][Next]_vars

\* the session without a change of the preferences and without the Save Image
\* button: images are exported by auto-save
NextCapture ==
    \/ \E m \in Modes : SetMode(m)
    \/ Enumeration
    \/ RefreshWindows
    \/ \E w \in WindowIds : SelectWindow(w)
    \/ Capture
    \/ \E c \in captures, d \in Displays : CaptureOk(c, MaxDim, MaxDimY, d)
    \/ \E c \in captures : CaptureFails(c)
    \/ \E t \in timers : AutoSaveTimer(t)
    \/ \E c \in Crops : SetCompletedCrop(c)
    \/ ConfirmCrop
    \/ \E s \in Pending(saves) : SaveDialogChosen(s)
    \/ \E s \in Pending(saves) : SaveDialogCancelled(s)
    \/ \E s \in Pending(saves) : SaveInvokeOk(s)
    \/ \E s \in Pending(saves) : SaveFails(s)

SpecCapture == Init /\ [][NextCapture]_vars

\* recording, with the mode switched between fullscreen and record
NextRec ==
    \/ \E m \in {"fullscreen", "record"} : SetMode(m)
    \/ \E f \in Pending(fetches), mons \in MonitorLists : FetchMonitorsOk(f, mons)
    \/ \E f \in Pending(fetches) : FetchFails(f)
    \/ ToggleAutoSave
    \/ SelectDefaultFolder
    \/ StartRecording
    \/ \E p \in starts : StartGranted(p)
    \/ \E p \in starts : StartGrantedRecorderFails(p)
    \/ \E p \in starts : StartDenied(p)
    \/ StopRecording
    \/ \E r \in recorders, size \in 0..1 : RecorderStopped(r, size)
    \/ \E r \in recorders : OnStopAssembled(r)
    \/ \E r \in recorders : OnStopAssemblyFails(r)
    \/ \E s \in Pending(videoSaves) : VideoDialogChosen(s)
    \/ \E s \in Pending(videoSaves) : VideoDialogCancelled(s)
    \/ \E s \in Pending(videoSaves) : VideoInvokeOk(s)
    \/ \E s \in Pending(videoSaves) : VideoSaveFails(s)

SpecRec == Init /\ [][NextRec]_vars

\* confirmCrop on its own: an area capture of every native size up to
\* MaxDim x MaxDimY, rendered at every size up to MaxDim x MaxDimY, with every
\* completed crop inside the rendered image; and the 1920x1080 capture
\* rendered at 960x540 with the crop {100, 50, 400, 300}
CropCases ==
    {[nat |-> [w |-> nw, h |-> nh], display |-> [width |-> dw, height |-> dh],
      crop |-> PixelCrop(x, y, w, h)] :
        nw \in 1..MaxDim, nh \in 1..MaxDimY, dw \in 1..MaxDim, dh \in 1..MaxDimY,
        x \in 0..MaxDim, y \in 0..MaxDimY, w \in 0..MaxDim, h \in 0..MaxDimY}

HdCase ==
    [nat |-> [w |-> 1920, h |-> 1080], display |-> [width |-> 960, height |-> 540],
     crop |-> PixelCrop(100, 50, 400, 300)]

InitCrop ==
    /\ InitRecording
    /\ EditorNotRendered
    /\ LoadPreferences
    /\ windows = <<>>
    /\ monitors = <<[id |-> 1, is_primary |-> TRUE]>>
    /\ selectedWindowId = NullId
    /\ selectedMonitorId = 1
    /\ fetches = EmptyBag
    /\ mode = "area"
    /\ image = NullImage
    /\ loading = FALSE
    /\ status = "Select area to crop"
    /\ captures = {}
    /\ nextCap = 1
    /\ timers = {}
    /\ saves = EmptyBag
    /\ \E case \in CropCases \cup {HdCase} :
         /\ case.crop.x + case.crop.width <= case.display.width
         /\ case.crop.y + case.crop.height <= case.display.height
         /\ originalImage = Png(1, case.nat.w, case.nat.h)
         /\ display = case.display
         /\ completedCrop = case.crop

NextCrop == ConfirmCrop

SpecCrop == InitCrop /\ [][NextCrop]_vars

\* the editor on its own, mounted with the first base image
InitEditor ==
    /\ InitSession
    /\ InitRecording
    /\ autoSave = FALSE
    /\ defaultPath = NoPath
    /\ windows = <<>>
    /\ monitors = <<>>
    /\ selectedWindowId = NullId
    /\ selectedMonitorId = NullId
    /\ fetches = EmptyBag
    /\ EditorMounted(CHOOSE b \in BaseImages : b.id = 1)

NextEditor ==
    \/ \E t \in {"pen", "eraser"} : SetTool(t)
    \/ \E c \in Colors : SetColor(c)
    \/ \E o \in Opacities : SetOpacity(o)
    \/ \E x \in PointerCells(canvas) : StartDrawing(x)
    \/ \E x \in PointerCells(canvas) : Draw(x)
    \/ StopDrawing
    \/ ClearCanvas
    \/ \E b \in BaseImages : SetImageData(b)
    \/ \E b \in loads : DimensionsLoaded(b)
    \/ GetMergedImage
    \/ \E f \in flattens : MergedLoaded(f)
    \/ \E f \in flattens : MergedLoadThrows(f)

SpecEditor == InitEditor /\ [][NextEditor]_vars

\* the editor with one base image: strokes, Clear All and getMergedImage
NextStrokes ==
    \/ \E t \in {"pen", "eraser"} : SetTool(t)
    \/ \E c \in Colors : SetColor(c)
    \/ \E o \in Opacities : SetOpacity(o)
    \/ \E x \in PointerCells(canvas) : StartDrawing(x)
    \/ \E x \in PointerCells(canvas) : Draw(x)
    \/ StopDrawing
    \/ ClearCanvas
    \/ \E b \in loads : DimensionsLoaded(b)
    \/ GetMergedImage
    \/ \E f \in flattens : MergedLoaded(f)
    \/ \E f \in flattens : MergedLoadThrows(f)

SpecStrokes == InitEditor /\ [][NextStrokes]_vars

\* enumeration on its own: the mode, the refresh buttons and the selectors,
\* with get_windows and get_monitors answering lists of one to three sources.
\* An identifier is a number: 0 is one of them.  The lists differ in the
\* sources they hold, so that a selected source can be missing from a later
\* answer, and in the place of the primary monitor.
SourceIds == {0, 1, 2}
EnumWindowLists ==
    {<<[id |-> 1], [id |-> 2]>>,
     <<[id |-> 0], [id |-> 1], [id |-> 2]>>,
     <<[id |-> 2]>>}
EnumMonitorLists ==
    {<<[id |-> 1, is_primary |-> TRUE], [id |-> 2, is_primary |-> FALSE]>>,
     <<[id |-> 0, is_primary |-> FALSE], [id |-> 1, is_primary |-> TRUE]>>,
     <<[id |-> 2, is_primary |-> FALSE]>>}

InitEnum ==
    /\ InitSession
    /\ InitRecording
    /\ EditorNotRendered
    /\ autoSave = FALSE
    /\ defaultPath = NoPath
    /\ windows = <<>>
    /\ monitors = <<>>
    /\ selectedWindowId = NullId
    /\ selectedMonitorId = NullId
    /\ fetches = SetToBag({FetchCall("monitors", NullId)})

NextEnum ==
    \/ \E m \in Modes : SetMode(m)
    \/ \E f \in Pending(fetches), wins \in EnumWindowLists : FetchWindowsOk(f, wins)
    \/ \E f \in Pending(fetches), mons \in EnumMonitorLists : FetchMonitorsOk(f, mons)
    \/ \E f \in Pending(fetches) : FetchFails(f)
    \/ RefreshWindows
    \/ RefreshMonitors
    \/ \E w \in SourceIds : SelectWindow(w)
    \/ \E m \in SourceIds : SelectMonitor(m)

SpecEnum == InitEnum /\ [][NextEnum]_vars

----------------------------------------------------------------------------
(* Properties *)

\* C1 (Spec): a switch of the capture mode leaves the session without an
\* image, without a pre-crop image and without a crop selection.
C1_ModeSwitchDiscards ==
    [][mode' # mode =>
         /\ image' = NullImage
         /\ originalImage' = NullImage
         /\ completedCrop' = NoCrop]_vars

\* C2 (Spec): when a capture call resolves after the mode has been switched
\* away from the mode it was issued in, its result is not applied: image and
\* originalImage keep their values and no auto-save timer is set.
C2_StaleCaptureDropped ==
    [][\A c \in captures :
         (c \notin captures' /\ c.mode # mode) =>
            /\ image' = image
            /\ originalImage' = originalImage
            /\ timers' = timers]_vars

\* C3 (SpecCapture): at most one capture call is in flight, and while one is in
\* flight loading is true (the Capture button is disabled).
C3_OneCaptureInFlight ==
    /\ Cardinality(captures) <= 1
    /\ captures # {} => loading

\* C3 witness: a capture call is in flight, issued in a mode the user has
\* since left, a window has since been selected, and a further capture call
\* is within the bound.
C3_Witness ==
    /\ nextCap < MaxCaptures
    /\ mode = "window"
    /\ TruthyId(selectedWindowId)
    /\ \E c \in captures : c.mode # mode /\ c.win # selectedWindowId

\* C4 (SpecRec): once the onstop handler of a stopped recorder has run to its
\* end, with or without a failure, the recorder's stream is released.
C4_StopReleasesStream ==
    \A r \in recorders : r.onstop \in {"done", "failed"} => r.stream \notin streams

\* C5 (SpecRec): at most one recorder is recording, so that a start granted
\* while a recording is active never adds a second recording and stream.
C5_OneRecording ==
    Cardinality({r \in recorders : r.state = "recording" /\ r.stream \in streams}) <= 1

\* C6 (Spec): no capture call is in flight that was requested in window mode
\* with no window selected.
C6_NoCaptureWithoutWindow ==
    \A c \in captures : ~(c.mode = "window" /\ c.win = NullId)

\* C7 as stated (SpecCrop): whenever confirmCrop yields an image, its native
\* size is exactly (w * sx, h * sy), taken from (x * sx, y * sy).
C7_ExactNativeRect ==
    [][(ConfirmCrop /\ TruthyImage(image')) =>
         /\ image'.w * display.width = completedCrop.width * originalImage.w
         /\ image'.h * display.height = completedCrop.height * originalImage.h
         /\ RatEq(image'.sx, Rat(completedCrop.x * originalImage.w, display.width))
         /\ RatEq(image'.sy, Rat(completedCrop.y * originalImage.h, display.height))]_vars

\* C7 amended (SpecCrop): confirmCrop takes the source rectangle at
\* (x * sx, y * sy) of size (w * sx, h * sy), with sx = nativeWidth /
\* displayWidth and sy = nativeHeight / displayHeight, and yields an image of
\* the size truncated to whole pixels; when a truncated side is 0 it yields the
\* empty string.
C7_TruncatedNativeRect ==
    [][ConfirmCrop =>
         LET nw == (completedCrop.width * originalImage.w) \div display.width
             nh == (completedCrop.height * originalImage.h) \div display.height
         IN IF nw >= 1 /\ nh >= 1
            THEN /\ image'.kind = "png"
                 /\ image'.cap = originalImage.cap
                 /\ image'.w = nw
                 /\ image'.h = nh
                 /\ image'.sx[1] * display.width = completedCrop.x * originalImage.w * image'.sx[2]
                 /\ image'.sy[1] * display.height = completedCrop.y * originalImage.h * image'.sy[2]
                 /\ image'.sw[1] * display.width = completedCrop.width * originalImage.w * image'.sw[2]
                 /\ image'.sh[1] * display.height = completedCrop.height * originalImage.h * image'.sh[2]
            ELSE image' = EmptyString]_vars

\* C7 witness: the 1920x1080 capture rendered at 960x540 has been cropped
\* with {100, 50, 400, 300}: 800x600 from (200, 100).
C7_Witness ==
    /\ originalImage = NullImage
    /\ image.kind = "png"
    /\ display = [width |-> 960, height |-> 540]
    /\ completedCrop = PixelCrop(100, 50, 400, 300)
    /\ image.w = 800 /\ image.h = 600
    /\ RatEq(image.sx, Rat(200, 1)) /\ RatEq(image.sy, Rat(100, 1))

\* C8 (Spec): confirmCrop with a completed crop of width 0 or height 0 leaves
\* the held capture and the image as they are.
C8_ZeroAreaCropIsNoOp ==
    [][(ConfirmCrop /\ (completedCrop.width = 0 \/ completedCrop.height = 0)) =>
         /\ originalImage' = originalImage
         /\ image' = image]_vars

\* C9 (SpecRec): when the destination dialog of an export is cancelled, no
\* save_image / save_video call follows from it, the status is left alone,
\* and the artifact is still held: the image in the image state, the video by
\* some saveVideo call (nothing else can pass video bytes to save_video).
C9_CancelKeepsArtifact ==
    [][/\ \A s \in Pending(saves) :
            SaveDialogCancelled(s) =>
               /\ \A t \in Pending(saves') : t.stage = "invoke" => t \in Pending(saves)
               /\ status' = status
               /\ image' = image
       /\ \A s \in Pending(videoSaves) :
            VideoDialogCancelled(s) =>
               /\ \A t \in Pending(videoSaves') :
                     t.stage = "invoke" => t \in Pending(videoSaves)
               /\ status' = status
               /\ \E t \in Pending(videoSaves') : t.bytes = s.bytes]_vars

\* C10 (SpecRec): an export that starts skips the destination dialog and
\* writes under the default directory exactly when the auto-save flag is on and
\* a default directory is configured.
C10_DialogSkippedIffAutoSave ==
    [][/\ \A r \in recorders :
            OnStopAssembled(r) =>
               (SaveVideoCall(r, r.blob).path = "default"
                   <=> (autoSave /\ TruthyPath(defaultPath)))
       /\ \A t \in timers :
            AutoSaveTimer(t) =>
               (\E s \in Pending(saves') : s.data = t.data /\ s.path = "default")
                   <=> (autoSave /\ TruthyPath(defaultPath))]_vars

\* C11 (SpecEditor): the image a getMergedImage call resolves with shows on
\* every cell exactly the paint the annotation layer held there when the call
\* was made: every segment drawn before the call and none drawn after it.
C11_FlattenShowsLayerAtCall ==
    [][\A f \in flattens :
         (MergedLoaded(f) /\ merged'.data.kind = "png") =>
            \A c \in DOMAIN merged'.data.px :
               merged'.data.px[c].paint =
                  (IF c \in DOMAIN f.layer THEN f.layer[c] ELSE <<>>)]_vars

\* C12 (SpecEditor): Clear All leaves the layer empty and ends the stroke in
\* progress, so that pointer moves paint nothing until the next pointer-down.
C12_ClearEndsStroke ==
    [][ClearCanvas => (LayerEmpty(canvas') /\ ~isDrawing')]_vars

\* C13 (SpecStrokes): a segment drawn with the eraser's compositing leaves
\* every cell it covers without paint, whatever the colour and opacity
\* settings and whatever was painted there before; and the image a
\* getMergedImage call resolves with shows on every cell the paint of the
\* layer and no other.
C13_EraserDominance ==
    [][/\ \A x \in PointerCells(canvas) :
            (Draw(x) /\ ctx.op = "destination-out") =>
               \A c \in Cells(canvas) : Covers(ctx'.path, c) => canvas'.px[c] = <<>>
       /\ \A f \in flattens :
            (MergedLoaded(f) /\ merged'.data.kind = "png") =>
               \A c \in DOMAIN merged'.data.px \cap Cells(canvas) :
                  merged'.data.px[c].paint = canvas.px[c]]_vars

\* C13 witness: after a translucent pen segment and an eraser segment over
\* cell 1, a getMergedImage call made after both has resolved: cell 1 shows
\* no paint, its neighbour still shows the pen's.
C13_Witness ==
    /\ merged.kind = "result" /\ merged.data.kind = "png"
    /\ merged.edits = MaxEdits
    /\ ctx.op = "destination-out" /\ ctx.path = <<1, 1>>
    /\ opacity # Opaque
    /\ merged.data.px[1].paint = <<>>
    /\ merged.data.px[2].paint # <<>>
    /\ merged.data.px[2].paint[1].opacity # Opaque

\* C14 (SpecStrokes): Clear All leaves the layer as a layer of its size that
\* was never drawn on and leaves the base image and the dimensions alone; and
\* a getMergedImage call that finds the layer so resolves with the base image
\* alone.
C14_ClearThenFlatten ==
    [][/\ ClearCanvas =>
            /\ canvas' = BlankCanvas(canvas.width, canvas.height)
            /\ imageData' = imageData
            /\ dimensions' = dimensions
       /\ \A f \in flattens :
            (MergedLoaded(f) /\ LayerEmpty(canvas) /\ merged'.data.kind = "png") =>
               \A c \in DOMAIN merged'.data.px :
                  /\ merged'.data.px[c].paint = <<>>
                  /\ merged'.data.px[c].base =
                        (IF c <= f.imageData.w THEN f.imageData.id ELSE 0)]_vars

\* C14 witness: a pen segment was drawn and the stroke ended, Clear All
\* emptied the layer, and a getMergedImage call made after the clear has
\* resolved with an image without paint.
C14_Witness ==
    /\ merged.kind = "result" /\ merged.data.kind = "png"
    /\ merged.edits = MaxEdits /\ edits = MaxEdits
    /\ ~isDrawing
    /\ ctx.op = "source-over" /\ ctx.style # Black /\ Len(ctx.path) = 2
    /\ LayerEmpty(canvas)
    /\ \A c \in DOMAIN merged.data.px : merged.data.px[c].paint = <<>>

\* C15 (SpecEditor): a getMergedImage call changes neither the annotation
\* layer nor the base image, and it resolves with the image the call before it
\* resolved with when no segment, clear or base image change came in between.
C15_FlattenIdempotent ==
    [][\A f \in flattens :
         MergedLoaded(f) =>
            /\ canvas' = canvas
            /\ imageData' = imageData
            /\ (merged.kind = "result" /\ merged.edits = edits /\ f.edits = edits)
                  => merged'.data = merged.data]_vars

\* C16 (SpecCapture): at most one capture or export operation is in flight: a
\* capture call, an auto-save a capture has scheduled, or a saveImage call at
\* its destination dialog or at its write.
C16_OneOperationInFlight ==
    Cardinality(captures) + Cardinality(timers) + BagCardinality(saves) <= 1

\* C17 (SpecRec): every stream whose tracks are live belongs to a recorder that
\* is recording or whose stop is being finalized (its stop event or the
\* assembly of its data is pending).
C17_StreamHeldOnlyWhileRecording ==
    \A s \in streams :
       \E r \in recorders :
          /\ r.stream = s
          /\ r.state = "recording" \/ r.onstop \in {"none", "assembling"}

\* C18 (SpecCapture): image and originalImage are never both held; a capture
\* that resolves is held as the image when requested in fullscreen or window
\* mode and as the crop source when requested in area mode; confirmCrop with a
\* completed crop drops the crop source and holds the crop of it as the image.
C18_OneRole ==
    [][/\ ~(TruthyImage(image') /\ TruthyImage(originalImage'))
       /\ \A c \in captures, d \in Displays :
            CaptureOk(c, MaxDim, MaxDimY, d) =>
               IF c.mode = "area"
               THEN /\ TruthyImage(originalImage') /\ originalImage'.cap = c.id
                    /\ image' = NullImage
               ELSE /\ TruthyImage(image') /\ image'.cap = c.id
                    /\ originalImage' = NullImage
       /\ ConfirmCrop =>
            /\ originalImage' = NullImage
            /\ TruthyImage(image') /\ image'.cap = originalImage.cap]_vars

\* C19 (SpecCapture): when a capture call rejects, the status shows the error,
\* loading is cleared, image and originalImage keep their values, no auto-save
\* is scheduled or started, and no capture call is issued in its place.
C19_CaptureFailureHandled ==
    [][\A c \in captures :
         (c \notin captures' /\ status' = "Error") =>
            /\ ~loading'
            /\ CaptureEnabled' \/ mode = "record"
            /\ image' = image
            /\ originalImage' = originalImage
            /\ timers' = timers
            /\ saves' = saves
            /\ captures' = captures \ {c}
            /\ nextCap' = nextCap]_vars

\* C19 witness: the second capture call was rejected while the image of the
\* first was held: the image is still held, nothing is in flight and the
\* Capture button is enabled again.
C19_Witness ==
    /\ status = "Error"
    /\ nextCap = 2 /\ captures = {}
    /\ TruthyImage(image) /\ image.cap = 1
    /\ ~loading /\ CaptureEnabled

\* C20 (SpecEditor): the image a getMergedImage call resolves with shows no
\* paint that was drawn while another base image was shown.
C20_LayerDiscardedOnBaseChange ==
    (merged.kind = "result" /\ merged.data.kind = "png") =>
       \A c \in DOMAIN merged.data.px :
          \A i \in DOMAIN merged.data.px[c].paint :
             merged.data.px[c].paint[i].base = merged.data.base

\* C21 (SpecEditor): a getMergedImage call whose dimensions differ from the
\* native size of its base image (still 0x0, or those of the image shown
\* before) does not resolve with an output: no result is delivered for it.
C21_FlattenMismatchSignalsError ==
    [][\A f \in flattens :
         (/\ MergedLoaded(f)
          /\ \/ f.dimensions.width # f.imageData.w
             \/ f.dimensions.height # f.imageData.h)
            => merged' = merged]_vars

\* C22 (SpecEnum): when get_windows or get_monitors answers a refresh or the
\* re-enumeration of a mode change, a selected window or monitor that is in
\* the answered list stays selected.
C22_ReEnumerationKeepsSelection ==
    [][/\ \A f \in Pending(fetches), mons \in EnumMonitorLists :
            (/\ FetchMonitorsOk(f, mons)
             /\ selectedMonitorId # NullId
             /\ \E i \in 1..Len(mons) : mons[i].id = selectedMonitorId)
               => selectedMonitorId' = selectedMonitorId
       /\ \A f \in Pending(fetches), wins \in EnumWindowLists :
            (/\ FetchWindowsOk(f, wins)
             /\ selectedWindowId # NullId
             /\ \E i \in 1..Len(wins) : wins[i].id = selectedWindowId)
               => selectedWindowId' = selectedWindowId]_vars

====
